---------------------------- MODULE Spec2Model ----------------------------
(***************************************************************************)
(* Appointment booking of the interview-form front end: the two booking    *)
(* views (CandidateBooking, opened with ?candidate_id=..., and             *)
(* AppointmentSelection, the recruiter's list view), the appointment table *)
(* they write, the date-fns / date-fns-tz conversions they use and the     *)
(* calendar eligibility rules.                                             *)
(*                                                                         *)
(* Time.  An instant is an integer number of minutes since                 *)
(* 2025-10-31T00:00Z (a Friday).  A JavaScript Date held in component      *)
(* state is represented by its wall-clock fields (minutes since the same   *)
(* epoch read on the wall clock), which is all format, getDay, startOfDay, *)
(* isSameDay and setHours look at.  A nullable value is a sequence of      *)
(* length at most one.                                                     *)
(***************************************************************************)
EXTENDS Integers, Sequences, FiniteSets, TLC

VARIABLES store, nextId, now, candidateId, cb, asv, inflight, timers,
          cancelled, writes, probe, cs, resume

vars == <<store, nextId, now, candidateId, cb, asv, inflight, timers,
          cancelled, writes, probe, cs, resume>>

\* ------------------------------------------------------------------ bounds
\* Candidates with status 'For Interview' in the candidate table.
NumCandidates == 2
\* The model's user picks among the first NumSlots entries of timeSlots.
NumSlots == 2
\* The model's user picks among the first NumZones entries of TIMEZONES and
\* the default zone.
NumZones == 1
\* Rows the store hands an id to.
MaxRowId == 2
\* Steps of three days the clock advances.
MaxTicks == 1
\* Calendar cells the model's user clicks: Monday 2025-11-03 and the Mondays
\* two, four, ... weeks later.
MaxFortnights == 0
\* Reads started by an effect (or by QuestionViewer's button) that one
\* component has in flight at once.
MaxReads == 1
\* Submissions and cancellations started in one behaviour.
MaxWrites == 3

\* ----------------------------------------------------------------- options
Null == <<>>
Some(x) == <<x>>
Val(o) == o[1]
IsNull(o) == o = <<>>

\* -------------------------------------------------------------- time zones
TIMEZONES ==
  << "UTC", "America/New_York", "America/Chicago", "America/Los_Angeles",
     "Europe/London", "Europe/Paris", "Asia/Dubai", "Asia/Singapore",
     "Asia/Tokyo", "Australia/Sydney" >>

AllZones == {TIMEZONES[i] : i \in 1..Len(TIMEZONES)}

DefaultTimezone == "Asia/Dubai"

ZoneChoices == {TIMEZONES[i] : i \in 1..NumZones} \cup {DefaultTimezone}

\* The zone of the browser the views run in: it decides what "today" is and
\* what the local fields of a Date are.
BrowserZone == "Asia/Dubai"

\* Offset from UTC, in minutes, the IANA database gives the zone once its
\* 2025 daylight-saving period is over (the offsets TIMEZONES displays).
StandardOffset(z) ==
  CASE z = "UTC" -> 0
    [] z = "America/New_York" -> -300
    [] z = "America/Chicago" -> -360
    [] z = "America/Los_Angeles" -> -480
    [] z = "Europe/London" -> 0
    [] z = "Europe/Paris" -> 60
    [] z = "Asia/Dubai" -> 240
    [] z = "Asia/Singapore" -> 480
    [] z = "Asia/Tokyo" -> 540
    [] z = "Australia/Sydney" -> 660

\* The instant the zone's clocks go back one hour inside the modelled weeks
\* (United States: Sunday 2025-11-02, 02:00 daylight time); the European
\* zones went back on 2025-10-26 and Sydney went forward on 2025-10-05,
\* before the epoch.
HasFallBack(z) ==
  z \in {"America/New_York", "America/Chicago", "America/Los_Angeles"}

FallBackInstant(z) == 2 * 1440 + 60 - StandardOffset(z)

\* calcOffset of date-fns-tz: the zone's offset at instant t.
calcOffset(t, z) ==
  IF HasFallBack(z) /\ t < FallBackInstant(z)
  THEN StandardOffset(z) + 60
  ELSE StandardOffset(z)

\* toZonedTime(date, timeZone): a Date whose local fields are the wall clock
\* of the instant in the zone.
toZonedTime(t, z) == t + calcOffset(t, z)

\* fixOffset of date-fns-tz: from a wall clock w and a first guess o1, the
\* offset the zone has at that wall clock.
fixOffset(w, o1, z) ==
  LET o2 == calcOffset(w - o1, z)
      o3 == calcOffset(w - o2, z)
  IN  IF o1 = o2 THEN o1
      ELSE IF o2 = o3 THEN o2
      ELSE IF o2 > o3 THEN o2 ELSE o3

\* fromZonedTime(date, timeZone): the instant at which the zone's wall clock
\* shows the local fields of date.  The first guess is the zone's offset at
\* toUtcDate(new Date(utc)), the wall clock shifted by the browser's offset.
fromZonedTime(w, z) ==
  LET guess == calcOffset(w + calcOffset(w, BrowserZone), z)
  IN  w - fixOffset(w, guess, z)

\* format(date, 'yyyy-MM-dd'): the day of the wall clock.
formatDate(w) == w \div 1440

\* format(date, 'HH:mm'): hour and minute of the wall clock.
formatTime(w) == w % 1440

\* new Date(`${day}T${time}:00`): parsed as a local wall clock.
parseLocal(day, time) == day * 1440 + time

\* date.getDay(): 0 is Sunday; the epoch is a Friday.
getDay(w) == ((w \div 1440) + 5) % 7

startOfDay(w) == (w \div 1440) * 1440

addDays(w, n) == w + n * 1440

\* new Date(): the local fields of the current instant.
LocalNow == toZonedTime(now, BrowserZone)

\* ------------------------------------------------------------- candidates
CandidateNames == <<"c1", "c2", "c3", "c4">>

\* The rows of the candidate table with status 'For Interview', ordered by
\* vote descending.
CandidateList == [i \in 1..NumCandidates |-> CandidateNames[i]]

Candidates == {CandidateList[i] : i \in 1..NumCandidates}

position_code(c) == IF c = "c1" THEN "P1" ELSE "P2"

\* ------------------------------------------------------------ time slots
timeSlots == << 9 * 60, 10 * 60, 11 * 60, 12 * 60, 13 * 60, 14 * 60,
                15 * 60, 16 * 60, 17 * 60, 18 * 60 >>

SlotChoices == {timeSlots[i] : i \in 1..NumSlots}

\* Calendar cells (days since the epoch) the model's user clicks: Mondays a
\* fortnight apart, from 2025-11-03.
DayChoices == {3 + 14 * k : k \in 0..MaxFortnights}

\* The selected day and time stored as if they were UTC.
appointmentDateTime_Unconverted(selectedDate, selectedTime, tz) ==
  parseLocal(formatDate(selectedDate), selectedTime)

\* handleSubmitAppointment's appointmentDateTime: the selected day and time
\* as a wall clock of the selected zone, converted to UTC.
appointmentDateTime(selectedDate, selectedTime, tz) ==
  fromZonedTime(parseLocal(formatDate(selectedDate), selectedTime), tz)

\* ---------------------------------------------------- calendar eligibility
\* CandidateBooking's rule with the two getDay comparisons left out.
CB_isDateDisabled_NoWeekends(date, localNow) ==
  LET today == startOfDay(localNow)
      maxDate == addDays(today, 14)
  IN  date < today \/ date > maxDate

\* CandidateBooking.isDateDisabled(date), with today = startOfDay(new Date()).
CB_isDateDisabled(date, localNow) ==
  LET today == startOfDay(localNow)
      maxDate == addDays(today, 14)
  IN  date < today \/ date > maxDate \/ getDay(date) = 0 \/ getDay(date) = 6

\* AppointmentSelection's rule with the comparison against today left out.
AS_isDateDisabled_WeekendsOnly(date, localNow) ==
  LET day == startOfDay(date)
  IN  getDay(day) = 0 \/ getDay(day) = 6

\* AppointmentSelection.isDateDisabled(date).
AS_isDateDisabled(date, localNow) ==
  LET today == startOfDay(localNow)
      day == startOfDay(date)
  IN  day < today \/ getDay(day) = 0 \/ getDay(day) = 6

\* CandidateBooking's time-slot grid: a slot of today that has passed.
CB_isPast(selectedDate, slot, localNow) ==
  /\ startOfDay(selectedDate) = startOfDay(localNow)
  /\ startOfDay(selectedDate) + slot < localNow

\* QuestionViewer.isWithinTime.
isWithinTime(t, appointmentTime) == TRUE

\* ------------------------------------------------------ appointment table
\* A row: [id, candidate_id, appointment_time (nullable), position_code].
RowsOf(c) == {r \in store : r.candidate_id = c}

\* .select('*').eq('candidate_id', c).maybeSingle()
SelectByCandidate(c) ==
  IF RowsOf(c) = {} THEN Null ELSE Some(CHOOSE r \in RowsOf(c) : TRUE)

\* .update(fields).eq('id', id): no row matched is no error.
StoreUpdate(s, id, time, pos) ==
  {IF r.id = id
   THEN [r EXCEPT !.appointment_time = time, !.position_code = pos]
   ELSE r : r \in s}

\* .update({ appointment_time: null }).eq('id', id)
StoreClear(s, id) ==
  {IF r.id = id THEN [r EXCEPT !.appointment_time = Null] ELSE r : r \in s}

\* .delete().eq('id', id)
StoreDelete(s, id) == {r \in s : r.id # id}

\* The uniqueness of candidate_id in the appointment table.
Conflicts(s, c) == \E r \in s : r.candidate_id = c

NewRow(id, c, time, pos) ==
  [id |-> id, candidate_id |-> c, appointment_time |-> time,
   position_code |-> pos]

\* .upsert(row, { onConflict: 'candidate_id' })
StoreUpsert(s, id, c, time, pos) ==
  IF Conflicts(s, c)
  THEN {IF r.candidate_id = c
        THEN [r EXCEPT !.appointment_time = time, !.position_code = pos]
        ELSE r : r \in s}
  ELSE s \cup {NewRow(id, c, time, pos)}

\* .insert(row), when it does not conflict.
StoreInsert(s, id, c, time, pos) == s \cup {NewRow(id, c, time, pos)}

\* --------------------------------------------------------- component state
\* useState initial values of CandidateBooking.
CB_Initial ==
  [ mounted |-> FALSE, candidate |-> Null, selectedDate |-> Null,
    selectedTime |-> Null, selectedTimezone |-> DefaultTimezone,
    loading |-> TRUE, submitting |-> FALSE, success |-> FALSE, error |-> "",
    existingAppointment |-> Null, isEditMode |-> FALSE,
    showDeleteConfirm |-> FALSE, deleteSuccess |-> FALSE ]

\* useState initial values of AppointmentSelection; crashed records that a
\* render threw (no error boundary: the tree is unmounted).
AS_Initial ==
  [ mounted |-> FALSE, candidates |-> <<>>, selectedCandidate |-> Null,
    selectedDate |-> Null, selectedTime |-> Null,
    selectedTimezone |-> DefaultTimezone, loading |-> TRUE,
    submitting |-> FALSE, success |-> FALSE, error |-> "",
    existingAppointment |-> Null, isEditMode |-> FALSE,
    showDeleteConfirm |-> FALSE, crashed |-> FALSE ]

\* CandidateSelection (the candidate directory) before its mount.  A string
\* the user types is the sequence of its characters.  requests, delays and
\* saves are the component's pending promises: candidate-list queries, the
\* one-second waits of handleRetry / handleResetConnection, and updates of
\* saveEdit; aborted is the set of AbortControllers that were aborted, a
\* controller being named by the number of the fetch that created it.
CS_Initial ==
  [ mounted |-> FALSE, mountTimer |-> FALSE, configured |-> TRUE,
    candidates |-> <<>>, selectedCandidate |-> Null, loading |-> TRUE,
    editingField |-> "", editValue |-> <<>>, saving |-> FALSE,
    error |-> "", connectionStatus |-> "checking", alert |-> "",
    isFetchingRef |-> FALSE, hasInitializedRef |-> FALSE,
    abortControllerRef |-> Null, aborted |-> {}, nextFetch |-> 1,
    requests |-> {}, delays |-> {}, saves |-> {}, edits |-> 0 ]

\* The rows of hrta_cd00-01_resume_extraction, by candidate_id.
ResumeInitial ==
  [c \in Candidates |->
     [ email |-> <<c, "@", "x">>,
       vote |-> IF c = CandidateList[1] THEN Null ELSE Some(7) ]]

\* A remote call in flight with the values its closure captured: the
\* candidate and time zone of the render that started it, the row id it
\* matches (update, delete), the instant it writes, and what follows it
\* ("effect": nothing; "submit": the rest of handleSubmitAppointment).
Op(view, kind, cand, tz, id, time, cont) ==
  [ view |-> view, kind |-> kind, cand |-> cand, tz |-> tz, id |-> id,
    time |-> time, cont |-> cont ]

ReadsInFlight(view) ==
  {op \in inflight : op.view = view /\ op.kind = "read" /\ op.cont = "effect"}

Timer(view, kind) == [view |-> view, kind |-> kind]

\* Monday 2025-11-03, 09:30 in the browser's zone.
NowStart == 3 * 1440 + 5 * 60 + 30

\* The appointment table when the views open: empty, or holding the first
\* candidate's row as an earlier session left it (booked for the first day
\* and slot in the default zone, or cleared).
InitialStores ==
  LET c == CandidateList[1]
      t == appointmentDateTime(3 * 1440, timeSlots[1], DefaultTimezone)
  IN  { {}, {NewRow(1, c, Null, position_code(c))},
        {NewRow(1, c, Some(t), position_code(c))} }

Init ==
  /\ store \in InitialStores
  /\ nextId = Cardinality(store) + 1
  /\ now = NowStart
  /\ candidateId \in {Null, Some(CandidateList[1])}
  /\ cb = CB_Initial
  /\ asv = AS_Initial
  /\ inflight = {}
  /\ timers = {}
  /\ cancelled = {}
  /\ writes = 0
  /\ probe = Null
  /\ cs = CS_Initial
  /\ resume = ResumeInitial

\* The clock advances by three days (Monday, Thursday, Sunday, ...).
Tick ==
  /\ now < NowStart + MaxTicks * 3 * 1440
  /\ now' = now + 3 * 1440
  /\ UNCHANGED <<store, nextId, candidateId, cb, asv, inflight, timers,
                 cancelled, writes, probe, cs, resume>>

\* ------------------------------------------------------- CandidateBooking
\* The page below the loading / invalid-link / not-found screens.
CB_PageShown ==
  cb.mounted /\ ~cb.loading /\ ~IsNull(candidateId) /\ ~IsNull(cb.candidate)

\* The page can be clicked: the delete confirmation is a full-screen overlay.
CB_Rendered == CB_PageShown /\ ~cb.showDeleteConfirm

\* existingAppointment && !isEditMode: calendar, slots and zone are locked.
CB_Locked == ~IsNull(cb.existingAppointment) /\ ~cb.isEditMode

\* useEffect[candidateId] without setLoading(false) in its else branch.
CB_Mount_StillLoading ==
  /\ ~cb.mounted
  /\ IF IsNull(candidateId)
     THEN /\ cb' = [cb EXCEPT !.mounted = TRUE,
                              !.error = "No candidate ID provided in the URL"]
          /\ UNCHANGED inflight
     ELSE /\ cb' = [cb EXCEPT !.mounted = TRUE]
          /\ inflight' = inflight \cup
               {Op("CB", "fetchCandidate", Val(candidateId),
                   cb.selectedTimezone, Null, 0, "effect")}
  /\ UNCHANGED <<store, nextId, now, candidateId, asv, timers, cancelled,
                 writes, probe, cs, resume>>

\* useEffect[candidateId] on mount.
CB_Mount ==
  /\ ~cb.mounted
  /\ IF IsNull(candidateId)
     THEN /\ cb' = [cb EXCEPT !.mounted = TRUE, !.loading = FALSE,
                              !.error = "No candidate ID provided in the URL"]
          /\ UNCHANGED inflight
     ELSE /\ cb' = [cb EXCEPT !.mounted = TRUE]
          /\ inflight' = inflight \cup
               {Op("CB", "fetchCandidate", Val(candidateId),
                   cb.selectedTimezone, Null, 0, "effect")}
  /\ UNCHANGED <<store, nextId, now, candidateId, asv, timers, cancelled,
                 writes, probe, cs, resume>>

\* fetchCandidate resolves; setCandidate fires useEffect[candidate, ...],
\* which calls checkExistingAppointment.
CB_FetchCandidateResolve ==
  \E op \in inflight :
    /\ op.view = "CB" /\ op.kind = "fetchCandidate"
    /\ \/ /\ cb' = [cb EXCEPT !.candidate = Some(op.cand), !.loading = FALSE]
          /\ inflight' = (inflight \ {op}) \cup
               {Op("CB", "read", op.cand, cb.selectedTimezone, Null, 0,
                   "effect")}
       \/ /\ cb' = [cb EXCEPT !.loading = FALSE,
                     !.error = "Failed to load candidate information"]
          /\ inflight' = inflight \ {op}
    /\ UNCHANGED <<store, nextId, now, candidateId, asv, timers, cancelled,
                   writes, probe, cs, resume>>

\* checkExistingAppointment leaving edit mode off for a row without instant.
CB_checkExisting_PendingLocked(st, data, tz) ==
  IF IsNull(data)
  THEN [st EXCEPT !.existingAppointment = Null, !.selectedDate = Null,
                  !.selectedTime = Null, !.isEditMode = FALSE]
  ELSE IF IsNull(Val(data).appointment_time)
  THEN [st EXCEPT !.existingAppointment = data, !.selectedDate = Null,
                  !.selectedTime = Null, !.isEditMode = FALSE]
  ELSE LET w == toZonedTime(Val(Val(data).appointment_time), tz)
       IN  [st EXCEPT !.existingAppointment = data,
                      !.selectedDate = Some(w),
                      !.selectedTime = Some(formatTime(w)),
                      !.isEditMode = FALSE]

\* The state updates of checkExistingAppointment for the row it read.
CB_checkExisting(st, data, tz) ==
  IF IsNull(data)
  THEN [st EXCEPT !.existingAppointment = Null, !.selectedDate = Null,
                  !.selectedTime = Null, !.isEditMode = FALSE]
  ELSE IF IsNull(Val(data).appointment_time)
  THEN [st EXCEPT !.existingAppointment = data, !.selectedDate = Null,
                  !.selectedTime = Null, !.isEditMode = TRUE]
  ELSE LET w == toZonedTime(Val(Val(data).appointment_time), tz)
       IN  [st EXCEPT !.existingAppointment = data,
                      !.selectedDate = Some(w),
                      !.selectedTime = Some(formatTime(w)),
                      !.isEditMode = FALSE]

\* A checkExistingAppointment read resolves (or fails: logged only).  As the
\* last await of handleSubmitAppointment it is followed by the banner timer
\* and setSubmitting(false).
CB_CheckExistingDone(op, ok) ==
  /\ op.view = "CB" /\ op.kind = "read"
  /\ LET st1 == IF ok
                THEN CB_checkExisting(cb, SelectByCandidate(op.cand), op.tz)
                ELSE cb
         st2 == IF op.cont = "submit"
                THEN [st1 EXCEPT !.submitting = FALSE]
                ELSE st1
     IN  cb' = st2
  /\ timers' = IF op.cont = "submit"
               THEN timers \cup {Timer("CB", "submit")}
               ELSE timers
  /\ inflight' = inflight \ {op}
  /\ UNCHANGED <<store, nextId, now, candidateId, asv, cancelled, writes,
                 probe, cs, resume>>

CB_CheckExistingResolve ==
  \E op \in inflight, ok \in BOOLEAN : CB_CheckExistingDone(op, ok)

\* A calendar day is clicked.
CB_SelectDate ==
  \E d \in DayChoices :
    /\ CB_Rendered
    /\ ~(CB_isDateDisabled(d * 1440, LocalNow) \/ CB_Locked)
    /\ cb' = [cb EXCEPT !.selectedDate = Some(d * 1440)]
    /\ UNCHANGED <<store, nextId, now, candidateId, asv, inflight, timers,
                   cancelled, writes, probe, cs, resume>>

\* A time slot is clicked.
CB_SelectTime ==
  \E slot \in SlotChoices :
    /\ CB_Rendered /\ ~IsNull(cb.selectedDate)
    /\ ~(CB_isPast(Val(cb.selectedDate), slot, LocalNow) \/ CB_Locked)
    /\ cb' = [cb EXCEPT !.selectedTime = Some(slot)]
    /\ UNCHANGED <<store, nextId, now, candidateId, asv, inflight, timers,
                   cancelled, writes, probe, cs, resume>>

\* The time-zone select changes but the effect reads with the zone of the
\* render before.
CB_SetTimezone_StaleZone ==
  \E z \in ZoneChoices :
    /\ CB_Rendered /\ ~IsNull(cb.selectedDate) /\ ~CB_Locked
    /\ z # cb.selectedTimezone
    /\ Cardinality(ReadsInFlight("CB")) < MaxReads
    /\ cb' = [cb EXCEPT !.selectedTimezone = z]
    /\ inflight' = inflight \cup
         {Op("CB", "read", Val(cb.candidate), cb.selectedTimezone, Null, 0,
             "effect")}
    /\ UNCHANGED <<store, nextId, now, candidateId, asv, timers, cancelled,
                   writes, probe, cs, resume>>

\* The time-zone select changes; useEffect[candidate, selectedTimezone]
\* calls checkExistingAppointment with the new zone.
CB_SetTimezone ==
  \E z \in ZoneChoices :
    /\ CB_Rendered /\ ~IsNull(cb.selectedDate) /\ ~CB_Locked
    /\ z # cb.selectedTimezone
    /\ Cardinality(ReadsInFlight("CB")) < MaxReads
    /\ cb' = [cb EXCEPT !.selectedTimezone = z]
    /\ inflight' = inflight \cup
         {Op("CB", "read", Val(cb.candidate), z, Null, 0, "effect")}
    /\ UNCHANGED <<store, nextId, now, candidateId, asv, timers, cancelled,
                   writes, probe, cs, resume>>

\* "Change".
CB_Edit ==
  /\ CB_Rendered /\ CB_Locked
  /\ cb' = [cb EXCEPT !.isEditMode = TRUE]
  /\ UNCHANGED <<store, nextId, now, candidateId, asv, inflight, timers,
                 cancelled, writes, probe, cs, resume>>

\* "Delete" opens the confirmation; its "Cancel" closes it.
CB_ShowDeleteConfirm ==
  /\ CB_Rendered /\ CB_Locked
  /\ cb' = [cb EXCEPT !.showDeleteConfirm = TRUE]
  /\ UNCHANGED <<store, nextId, now, candidateId, asv, inflight, timers,
                 cancelled, writes, probe, cs, resume>>

CB_HideDeleteConfirm ==
  /\ CB_PageShown /\ cb.showDeleteConfirm /\ ~cb.submitting
  /\ cb' = [cb EXCEPT !.showDeleteConfirm = FALSE]
  /\ UNCHANGED <<store, nextId, now, candidateId, asv, inflight, timers,
                 cancelled, writes, probe, cs, resume>>

\* The appointment summary with its submit button is shown.
CB_SummaryShown ==
  /\ CB_Rendered /\ ~IsNull(cb.selectedDate) /\ ~IsNull(cb.selectedTime)
  /\ (~IsNull(cb.existingAppointment) => cb.isEditMode)

\* handleCancelEdit.
CB_handleCancelEdit(st) ==
  IF /\ ~IsNull(st.existingAppointment)
     /\ ~IsNull(Val(st.existingAppointment).appointment_time)
  THEN LET w == toZonedTime(
                  Val(Val(st.existingAppointment).appointment_time),
                  st.selectedTimezone)
       IN  [st EXCEPT !.selectedDate = Some(w),
                      !.selectedTime = Some(formatTime(w)),
                      !.isEditMode = FALSE]
  ELSE [st EXCEPT !.selectedDate = Null, !.selectedTime = Null,
                  !.isEditMode = FALSE]

CB_CancelEdit ==
  /\ CB_SummaryShown /\ cb.isEditMode /\ ~IsNull(cb.existingAppointment)
  /\ cb' = CB_handleCancelEdit(cb)
  /\ UNCHANGED <<store, nextId, now, candidateId, asv, inflight, timers,
                 cancelled, writes, probe, cs, resume>>

\* The validation of handleSubmitAppointment going on to the write.
CB_SubmitInvalid_GoesOn ==
  /\ CB_Rendered /\ ~cb.submitting
  /\ IsNull(cb.candidate) \/ IsNull(cb.selectedDate) \/ IsNull(cb.selectedTime)
  /\ cb' = [cb EXCEPT !.submitting = TRUE, !.error = ""]
  /\ UNCHANGED <<store, nextId, now, candidateId, asv, inflight, timers,
                 cancelled, writes, probe, cs, resume>>

\* handleSubmitAppointment called without a candidate, date or time (its
\* button is rendered only with a date and a time selected, so the call
\* does not come from a click on the rendered page): the validation returns.
CB_SubmitInvalid ==
  /\ CB_Rendered /\ ~cb.submitting
  /\ IsNull(cb.candidate) \/ IsNull(cb.selectedDate) \/ IsNull(cb.selectedTime)
  /\ cb' = [cb EXCEPT !.error = "Please select a date and time"]
  /\ UNCHANGED <<store, nextId, now, candidateId, asv, inflight, timers,
                 cancelled, writes, probe, cs, resume>>

\* handleSubmitAppointment behind a submit button without
\* disabled={submitting}.
CB_SubmitStart_NotDisabled ==
  /\ CB_SummaryShown /\ writes < MaxWrites
  /\ cb' = [cb EXCEPT !.submitting = TRUE, !.error = ""]
  /\ inflight' = inflight \cup
       {Op("CB", "submit", Val(cb.candidate), cb.selectedTimezone,
           IF IsNull(cb.existingAppointment) THEN Null
           ELSE Some(Val(cb.existingAppointment).id),
           appointmentDateTime(Val(cb.selectedDate), Val(cb.selectedTime),
                               cb.selectedTimezone),
           "submit")}
  /\ writes' = writes + 1
  /\ UNCHANGED <<store, nextId, now, candidateId, asv, timers, cancelled,
                 probe, cs, resume>>

\* handleSubmitAppointment up to its first await.  The row to update is the
\* existingAppointment of the render the handler was created in.
CB_SubmitStart ==
  /\ CB_SummaryShown /\ ~cb.submitting /\ writes < MaxWrites
  /\ cb' = [cb EXCEPT !.submitting = TRUE, !.error = ""]
  /\ inflight' = inflight \cup
       {Op("CB", "submit", Val(cb.candidate), cb.selectedTimezone,
           IF IsNull(cb.existingAppointment) THEN Null
           ELSE Some(Val(cb.existingAppointment).id),
           appointmentDateTime(Val(cb.selectedDate), Val(cb.selectedTime),
                               cb.selectedTimezone),
           "submit")}
  /\ writes' = writes + 1
  /\ UNCHANGED <<store, nextId, now, candidateId, asv, timers, cancelled,
                 probe, cs, resume>>

\* The candidate has a scheduled instant in table s.
Scheduled(s, c) ==
  \E r \in s : r.candidate_id = c /\ ~IsNull(r.appointment_time)

\* CandidateBooking's write with a plain insert in place of the upsert.
CB_SubmitWrite_PlainInsert(s, op) ==
  IF ~IsNull(op.id)
  THEN StoreUpdate(s, Val(op.id), Some(op.time), position_code(op.cand))
  ELSE StoreInsert(s, nextId, op.cand, Some(op.time), position_code(op.cand))

\* The write of CandidateBooking.handleSubmitAppointment: update by row id,
\* or upsert on candidate_id.
CB_SubmitWrite(s, op) ==
  IF ~IsNull(op.id)
  THEN StoreUpdate(s, Val(op.id), Some(op.time), position_code(op.cand))
  ELSE StoreUpsert(s, nextId, op.cand, Some(op.time), position_code(op.cand))

\* The catch block of handleSubmitAppointment, followed by its finally.
CB_SubmitCatch(st) ==
  [st EXCEPT !.submitting = FALSE,
             !.error = "Failed to save appointment. Please try again."]

\* The write of op fails.
CB_SubmitFailed(op) ==
  /\ op \in inflight /\ op.view = "CB" /\ op.kind = "submit"
  /\ cb' = CB_SubmitCatch(cb)
  /\ inflight' = inflight \ {op}
  /\ UNCHANGED <<store, nextId, cancelled>>

\* The write resolves: success banner, edit mode off, then (after 300 ms)
\* the re-read; or the catch block.
CB_SubmitResolve ==
  \E op \in inflight :
    /\ op.view = "CB" /\ op.kind = "submit"
    /\ \/ /\ ~IsNull(op.id) \/ Conflicts(store, op.cand) \/ nextId <= MaxRowId
          /\ store' = CB_SubmitWrite(store, op)
          /\ nextId' = IF Cardinality(store') > Cardinality(store)
                       THEN nextId + 1 ELSE nextId
          /\ cb' = [cb EXCEPT !.success = TRUE,
                                        !.isEditMode = FALSE]
          /\ inflight' = (inflight \ {op}) \cup
               {Op("CB", "read", op.cand, op.tz, Null, 0, "submit")}
          /\ cancelled' = IF Scheduled(store', op.cand)
                          THEN cancelled \ {op.cand} ELSE cancelled
       \/ CB_SubmitFailed(op)
    /\ UNCHANGED <<now, candidateId, asv, timers, writes, probe, cs, resume>>

\* handleDeleteAppointment up to its await (it returns at once without an
\* existingAppointment).
CB_DeleteStart ==
  /\ CB_PageShown /\ cb.showDeleteConfirm /\ ~cb.submitting
  /\ ~IsNull(cb.existingAppointment) /\ writes < MaxWrites
  /\ cb' = [cb EXCEPT !.submitting = TRUE, !.error = ""]
  /\ inflight' = inflight \cup
       {Op("CB", "delete", Val(cb.existingAppointment).candidate_id,
           cb.selectedTimezone, Some(Val(cb.existingAppointment).id), 0,
           "effect")}
  /\ writes' = writes + 1
  /\ UNCHANGED <<store, nextId, now, candidateId, asv, timers, cancelled,
                 probe, cs, resume>>

\* The write of CandidateBooking.handleDeleteAppointment.
CB_DeleteWrite(s, op) == StoreClear(s, Val(op.id))

\* The catch block of handleDeleteAppointment with the optimistic clearing of
\* the success path in it.
CB_DeleteCatch_Clears(st) ==
  [st EXCEPT !.existingAppointment = Null, !.selectedDate = Null,
             !.selectedTime = Null, !.submitting = FALSE,
             !.error = "Failed to delete appointment. Please try again."]

\* The catch block of handleDeleteAppointment, followed by its finally.
CB_DeleteCatch(st) ==
  [st EXCEPT !.submitting = FALSE,
             !.error = "Failed to delete appointment. Please try again."]

\* The write of op fails.
CB_DeleteFailed(op) ==
  /\ op \in inflight /\ op.view = "CB" /\ op.kind = "delete"
  /\ cb' = CB_DeleteCatch(cb)
  /\ inflight' = inflight \ {op}
  /\ UNCHANGED <<store, timers, cancelled>>

CB_DeleteResolve ==
  \E op \in inflight :
    /\ op.view = "CB" /\ op.kind = "delete"
    /\ \/ /\ store' = CB_DeleteWrite(store, op)
          /\ cb' = [cb EXCEPT !.existingAppointment = Null,
                     !.selectedDate = Null, !.selectedTime = Null,
                     !.showDeleteConfirm = FALSE, !.deleteSuccess = TRUE,
                     !.success = TRUE, !.submitting = FALSE]
          /\ timers' = timers \cup {Timer("CB", "delete")}
          /\ cancelled' = cancelled \cup {op.cand}
          /\ inflight' = inflight \ {op}
       \/ CB_DeleteFailed(op)
    /\ UNCHANGED <<nextId, now, candidateId, asv, writes, probe, cs, resume>>

\* A 3-second banner timer fires.
CB_TimerFire ==
  \E t \in timers :
    /\ t.view = "CB"
    /\ cb' = IF t.kind = "delete"
             THEN [cb EXCEPT !.success = FALSE, !.deleteSuccess = FALSE]
             ELSE [cb EXCEPT !.success = FALSE]
    /\ timers' = timers \ {t}
    /\ UNCHANGED <<store, nextId, now, candidateId, asv, inflight, cancelled,
                   writes, probe, cs, resume>>

\* Everything the booking page does in the time zone it opened with.
CB_Core ==
  \/ CB_Mount \/ CB_FetchCandidateResolve \/ CB_CheckExistingResolve
  \/ CB_SelectDate \/ CB_SelectTime \/ CB_Edit
  \/ CB_ShowDeleteConfirm \/ CB_HideDeleteConfirm \/ CB_CancelEdit
  \/ CB_SubmitStart \/ CB_SubmitResolve \/ CB_DeleteStart \/ CB_DeleteResolve
  \/ CB_TimerFire

CB_Next == CB_Core \/ CB_SetTimezone

\* --------------------------------------------------- AppointmentSelection
\* The "Current Appointment" panel formats parseISO(appointment_time): with
\* a null appointment_time the render throws and, there being no error
\* boundary, the view is gone.
AS_RenderThrows(st) ==
  /\ st.mounted /\ ~st.loading /\ st.candidates # <<>>
  /\ ~IsNull(st.selectedCandidate)
  /\ ~IsNull(st.existingAppointment) /\ ~st.isEditMode
  /\ IsNull(Val(st.existingAppointment).appointment_time)

AS_Render(st) ==
  IF st.crashed THEN asv
  ELSE IF AS_RenderThrows(st) THEN [st EXCEPT !.crashed = TRUE]
  ELSE st

AS_PageShown ==
  asv.mounted /\ ~asv.loading /\ asv.candidates # <<>> /\ ~asv.crashed

AS_Rendered == AS_PageShown /\ ~asv.showDeleteConfirm

AS_Locked == ~IsNull(asv.existingAppointment) /\ ~asv.isEditMode

\* useEffect[] on mount: fetchCandidates.
AS_Mount ==
  /\ ~asv.mounted
  /\ asv' = [asv EXCEPT !.mounted = TRUE]
  /\ inflight' = inflight \cup
       {Op("AS", "fetchCandidates", "", asv.selectedTimezone, Null, 0,
           "effect")}
  /\ UNCHANGED <<store, nextId, now, candidateId, cb, timers, cancelled,
                 writes, probe, cs, resume>>

\* fetchCandidates resolves; setSelectedCandidate(data[0]) fires
\* useEffect[selectedCandidate, selectedTimezone].
AS_FetchCandidatesResolve ==
  \E op \in inflight :
    /\ op.view = "AS" /\ op.kind = "fetchCandidates"
    /\ \/ /\ asv' = [asv EXCEPT !.candidates = CandidateList,
                                !.selectedCandidate = Some(CandidateList[1]),
                                !.loading = FALSE]
          /\ inflight' = (inflight \ {op}) \cup
               {Op("AS", "read", CandidateList[1], asv.selectedTimezone,
                   Null, 0, "effect")}
       \/ /\ asv' = [asv EXCEPT !.loading = FALSE,
                                !.error = "Failed to load candidates"]
          /\ inflight' = inflight \ {op}
    /\ UNCHANGED <<store, nextId, now, candidateId, cb, timers, cancelled,
                   writes, probe, cs, resume>>

\* A candidate of the list is clicked.
AS_SelectCandidate ==
  \E i \in 1..Len(asv.candidates) :
    /\ AS_Rendered
    /\ asv.selectedCandidate # Some(asv.candidates[i])
    /\ Cardinality(ReadsInFlight("AS")) < MaxReads
    /\ asv' = [asv EXCEPT !.selectedCandidate = Some(asv.candidates[i])]
    /\ inflight' = inflight \cup
         {Op("AS", "read", asv.candidates[i], asv.selectedTimezone, Null, 0,
             "effect")}
    /\ UNCHANGED <<store, nextId, now, candidateId, cb, timers, cancelled,
                   writes, probe, cs, resume>>

\* The state updates of checkExistingAppointment for the row it read:
\* parseISO(null) throws after setExistingAppointment, into the catch block.
AS_checkExisting(st, data, tz) ==
  IF IsNull(data)
  THEN [st EXCEPT !.existingAppointment = Null, !.selectedDate = Null,
                  !.selectedTime = Null, !.isEditMode = FALSE]
  ELSE IF IsNull(Val(data).appointment_time)
  THEN [st EXCEPT !.existingAppointment = data]
  ELSE LET w == toZonedTime(Val(Val(data).appointment_time), tz)
       IN  [st EXCEPT !.existingAppointment = data,
                      !.selectedDate = Some(w),
                      !.selectedTime = Some(formatTime(w)),
                      !.isEditMode = FALSE]

AS_CheckExistingDone(op, ok) ==
  /\ op.view = "AS" /\ op.kind = "read"
  /\ LET st1 == IF ok
                THEN AS_checkExisting(asv, SelectByCandidate(op.cand), op.tz)
                ELSE asv
         st2 == IF op.cont = "submit"
                THEN [st1 EXCEPT !.submitting = FALSE]
                ELSE st1
     IN  asv' = AS_Render(st2)
  /\ timers' = IF op.cont = "submit"
               THEN timers \cup {Timer("AS", "submit")}
               ELSE timers
  /\ inflight' = inflight \ {op}
  /\ UNCHANGED <<store, nextId, now, candidateId, cb, cancelled, writes,
                 probe, cs, resume>>

AS_CheckExistingResolve ==
  \E op \in inflight, ok \in BOOLEAN : AS_CheckExistingDone(op, ok)

AS_SelectDate ==
  \E d \in DayChoices :
    /\ AS_Rendered
    /\ ~(AS_isDateDisabled(d * 1440, LocalNow) \/ AS_Locked)
    /\ asv' = [asv EXCEPT !.selectedDate = Some(d * 1440)]
    /\ UNCHANGED <<store, nextId, now, candidateId, cb, inflight, timers,
                   cancelled, writes, probe, cs, resume>>

AS_SelectTime ==
  \E slot \in SlotChoices :
    /\ AS_Rendered /\ ~IsNull(asv.selectedDate) /\ ~AS_Locked
    /\ asv' = [asv EXCEPT !.selectedTime = Some(slot)]
    /\ UNCHANGED <<store, nextId, now, candidateId, cb, inflight, timers,
                   cancelled, writes, probe, cs, resume>>

AS_SetTimezone ==
  \E z \in ZoneChoices :
    /\ AS_Rendered /\ ~IsNull(asv.selectedDate) /\ ~AS_Locked
    /\ z # asv.selectedTimezone
    /\ Cardinality(ReadsInFlight("AS")) < MaxReads
    /\ asv' = [asv EXCEPT !.selectedTimezone = z]
    /\ inflight' = inflight \cup
         {Op("AS", "read", Val(asv.selectedCandidate), z, Null, 0, "effect")}
    /\ UNCHANGED <<store, nextId, now, candidateId, cb, timers, cancelled,
                   writes, probe, cs, resume>>

AS_Edit ==
  /\ AS_Rendered /\ ~IsNull(asv.selectedCandidate) /\ AS_Locked
  /\ asv' = [asv EXCEPT !.isEditMode = TRUE]
  /\ UNCHANGED <<store, nextId, now, candidateId, cb, inflight, timers,
                 cancelled, writes, probe, cs, resume>>

AS_ShowDeleteConfirm ==
  /\ AS_Rendered /\ ~IsNull(asv.selectedCandidate) /\ AS_Locked
  /\ asv' = [asv EXCEPT !.showDeleteConfirm = TRUE]
  /\ UNCHANGED <<store, nextId, now, candidateId, cb, inflight, timers,
                 cancelled, writes, probe, cs, resume>>

AS_HideDeleteConfirm ==
  /\ AS_PageShown /\ asv.showDeleteConfirm /\ ~asv.submitting
  /\ asv' = [asv EXCEPT !.showDeleteConfirm = FALSE]
  /\ UNCHANGED <<store, nextId, now, candidateId, cb, inflight, timers,
                 cancelled, writes, probe, cs, resume>>

AS_SummaryShown ==
  /\ AS_Rendered /\ ~IsNull(asv.selectedDate) /\ ~IsNull(asv.selectedTime)
  /\ (~IsNull(asv.existingAppointment) => asv.isEditMode)

\* handleCancelEdit: the stored instant in the browser's zone; parseISO(null)
\* throws before any state is set.
AS_handleCancelEdit(st) ==
  IF IsNull(st.existingAppointment)
  THEN [st EXCEPT !.isEditMode = FALSE]
  ELSE IF IsNull(Val(st.existingAppointment).appointment_time)
  THEN st
  ELSE LET w == toZonedTime(
                  Val(Val(st.existingAppointment).appointment_time),
                  BrowserZone)
       IN  [st EXCEPT !.selectedDate = Some(w),
                      !.selectedTime = Some(formatTime(w)),
                      !.isEditMode = FALSE]

AS_CancelEdit ==
  /\ AS_SummaryShown /\ asv.isEditMode /\ ~IsNull(asv.existingAppointment)
  /\ asv' = AS_Render(AS_handleCancelEdit(asv))
  /\ asv' # asv
  /\ UNCHANGED <<store, nextId, now, candidateId, cb, inflight, timers,
                 cancelled, writes, probe, cs, resume>>

\* handleSubmitAppointment called without a candidate, date or time: the
\* validation returns.
AS_SubmitInvalid ==
  /\ AS_Rendered /\ ~asv.submitting
  /\ \/ IsNull(asv.selectedCandidate) \/ IsNull(asv.selectedDate)
     \/ IsNull(asv.selectedTime)
  /\ asv' = [asv EXCEPT !.error = "Please select a date and time"]
  /\ UNCHANGED <<store, nextId, now, candidateId, cb, inflight, timers,
                 cancelled, writes, probe, cs, resume>>

AS_SubmitStart ==
  /\ AS_SummaryShown /\ ~asv.submitting /\ writes < MaxWrites
  /\ ~IsNull(asv.selectedCandidate)
  /\ asv' = [asv EXCEPT !.submitting = TRUE, !.error = ""]
  /\ inflight' = inflight \cup
       {Op("AS", "submit", Val(asv.selectedCandidate), asv.selectedTimezone,
           IF IsNull(asv.existingAppointment) THEN Null
           ELSE Some(Val(asv.existingAppointment).id),
           appointmentDateTime(Val(asv.selectedDate), Val(asv.selectedTime),
                               asv.selectedTimezone),
           "submit")}
  /\ writes' = writes + 1
  /\ UNCHANGED <<store, nextId, now, candidateId, cb, timers, cancelled,
                 probe, cs, resume>>

\* The write of AppointmentSelection.handleSubmitAppointment: update by row
\* id, or insert.
AS_SubmitWrite(s, op) ==
  IF ~IsNull(op.id)
  THEN StoreUpdate(s, Val(op.id), Some(op.time), position_code(op.cand))
  ELSE StoreInsert(s, nextId, op.cand, Some(op.time), position_code(op.cand))

\* The insert is refused when it would break the uniqueness of candidate_id.
AS_SubmitRefused(s, op) == IsNull(op.id) /\ Conflicts(s, op.cand)

\* The write of op fails: the catch block and the finally.
AS_SubmitFailed(op) ==
  /\ op \in inflight /\ op.view = "AS" /\ op.kind = "submit"
  /\ asv' = AS_Render([asv EXCEPT !.submitting = FALSE,
              !.error = "Failed to save appointment. Please try again."])
  /\ inflight' = inflight \ {op}
  /\ UNCHANGED <<store, nextId, cancelled>>

AS_SubmitResolve ==
  \E op \in inflight :
    /\ op.view = "AS" /\ op.kind = "submit"
    /\ \/ /\ ~AS_SubmitRefused(store, op)
          /\ ~IsNull(op.id) \/ nextId <= MaxRowId
          /\ store' = AS_SubmitWrite(store, op)
          /\ nextId' = IF Cardinality(store') > Cardinality(store)
                       THEN nextId + 1 ELSE nextId
          /\ asv' = AS_Render([asv EXCEPT !.success = TRUE,
                                          !.isEditMode = FALSE])
          /\ inflight' = (inflight \ {op}) \cup
               {Op("AS", "read", op.cand, op.tz, Null, 0, "submit")}
          /\ cancelled' = IF Scheduled(store', op.cand)
                          THEN cancelled \ {op.cand} ELSE cancelled
       \/ AS_SubmitFailed(op)
    /\ UNCHANGED <<now, candidateId, cb, timers, writes, probe, cs, resume>>

AS_DeleteStart ==
  /\ AS_PageShown /\ asv.showDeleteConfirm /\ ~asv.submitting
  /\ ~IsNull(asv.existingAppointment) /\ writes < MaxWrites
  /\ asv' = [asv EXCEPT !.submitting = TRUE, !.error = ""]
  /\ inflight' = inflight \cup
       {Op("AS", "delete", Val(asv.existingAppointment).candidate_id,
           asv.selectedTimezone, Some(Val(asv.existingAppointment).id), 0,
           "effect")}
  /\ writes' = writes + 1
  /\ UNCHANGED <<store, nextId, now, candidateId, cb, timers, cancelled,
                 probe, cs, resume>>

\* The write of AppointmentSelection.handleDeleteAppointment.
AS_DeleteWrite(s, op) == StoreDelete(s, Val(op.id))

\* The write of op fails: the catch block and the finally.
AS_DeleteFailed(op) ==
  /\ op \in inflight /\ op.view = "AS" /\ op.kind = "delete"
  /\ asv' = AS_Render([asv EXCEPT !.submitting = FALSE,
              !.error = "Failed to delete appointment. Please try again."])
  /\ inflight' = inflight \ {op}
  /\ UNCHANGED <<store, timers, cancelled>>

AS_DeleteResolve ==
  \E op \in inflight :
    /\ op.view = "AS" /\ op.kind = "delete"
    /\ \/ /\ store' = AS_DeleteWrite(store, op)
          /\ asv' = AS_Render([asv EXCEPT !.existingAppointment = Null,
                     !.selectedDate = Null, !.selectedTime = Null,
                     !.showDeleteConfirm = FALSE, !.success = TRUE,
                     !.submitting = FALSE])
          /\ timers' = timers \cup {Timer("AS", "submit")}
          /\ cancelled' = cancelled \cup {op.cand}
          /\ inflight' = inflight \ {op}
       \/ AS_DeleteFailed(op)
    /\ UNCHANGED <<nextId, now, candidateId, cb, writes, probe, cs, resume>>

\* The banner timers of handleSubmitAppointment and handleDeleteAppointment
\* both only reset success.
AS_TimerFire ==
  \E t \in timers :
    /\ t.view = "AS"
    /\ asv' = AS_Render([asv EXCEPT !.success = FALSE])
    /\ timers' = timers \ {t}
    /\ UNCHANGED <<store, nextId, now, candidateId, cb, inflight, cancelled,
                   writes, probe, cs, resume>>

\* Everything the selection page does for the candidate it opened with, in
\* the time zone it opened with.
AS_Core ==
  \/ AS_Mount \/ AS_FetchCandidatesResolve
  \/ AS_CheckExistingResolve \/ AS_SelectDate \/ AS_SelectTime
  \/ AS_Edit \/ AS_ShowDeleteConfirm
  \/ AS_HideDeleteConfirm \/ AS_CancelEdit \/ AS_SubmitStart
  \/ AS_SubmitResolve \/ AS_DeleteStart \/ AS_DeleteResolve \/ AS_TimerFire

AS_Next == AS_Core \/ AS_SetTimezone \/ AS_SelectCandidate

\* ------------------------------------------- conversions and rules alone
\* ----------------------------------------------------- CandidateSelection
\* Candidate-list queries issued in one session.
MaxFetches == 3
\* Updates saveEdit sends in one session.
MaxEdits == 2

\* What is typed into the field being edited.
EditInputs ==
  { <<>>, <<"a", "@", "b">>, <<" ", "a", "b">>, <<"5">>, <<"1", "1">>,
    <<"-", "1">>, <<"x">> }

\* parseFloat of a text that is not a number.
NaN == 0 - 1000

DigitOf(ch) ==
  CASE ch = "0" -> 0 [] ch = "1" -> 1 [] ch = "2" -> 2 [] ch = "3" -> 3
    [] ch = "4" -> 4 [] ch = "5" -> 5 [] ch = "6" -> 6 [] ch = "7" -> 7
    [] ch = "8" -> 8 [] ch = "9" -> 9 [] OTHER -> NaN

\* String.prototype.trim.
RECURSIVE trim(_)
trim(str) ==
  IF str # <<>> /\ Head(str) = " " THEN trim(Tail(str))
  ELSE IF str # <<>> /\ str[Len(str)] = " "
  THEN trim(SubSeq(str, 1, Len(str) - 1))
  ELSE str

\* The digits at the front of str, read as a number after acc.
RECURSIVE ParseDigits(_, _)
ParseDigits(str, acc) ==
  IF str = <<>> \/ DigitOf(Head(str)) = NaN THEN acc
  ELSE ParseDigits(Tail(str), 10 * acc + DigitOf(Head(str)))

\* parseFloat, for texts without a fraction.
parseFloat(str) ==
  LET t    == trim(str)
      body == IF t # <<>> /\ Head(t) = "-" THEN Tail(t) ELSE t
  IN  IF body = <<>> \/ DigitOf(Head(body)) = NaN THEN NaN
      ELSE IF t # body THEN 0 - ParseDigits(body, 0)
      ELSE ParseDigits(body, 0)

\* String.prototype.includes('@').
includesAt(str) == \E i \in 1..Len(str) : str[i] = "@"

\* .select('*').limit(50).order('created_at', { ascending: false }) on table t.
ResumeRows(t) ==
  [i \in 1..NumCandidates |->
     [ candidate_id |-> CandidateList[i], email |-> t[CandidateList[i]].email,
       vote |-> t[CandidateList[i]].vote ]]

\* Neither the spinner, the error screen nor the connection test is shown.
CS_PageShown ==
  cs.mounted /\ ~cs.loading /\ cs.error = ""
    /\ cs.connectionStatus # "checking"

\* The finally block of fetchCandidates.
CS_fetchFinally(st) ==
  [st EXCEPT !.loading = FALSE, !.isFetchingRef = FALSE,
             !.abortControllerRef = Null]

\* abortControllerRef.current.abort(), when there is a controller.
CS_abortCurrent(st) ==
  [st EXCEPT !.aborted = IF IsNull(st.abortControllerRef) THEN @
                         ELSE @ \cup {Val(st.abortControllerRef)}]

\* fetchCandidates up to its await: the guard, the new AbortController (its
\* signal is not handed to the query), the configuration check, the query.
CS_fetchCandidates(st) ==
  IF st.isFetchingRef THEN st
  ELSE LET s1 == [CS_abortCurrent(st) EXCEPT
                    !.isFetchingRef = TRUE, !.error = "",
                    !.abortControllerRef = Some(st.nextFetch),
                    !.nextFetch = @ + 1]
       IN  IF ~st.configured
           THEN CS_fetchFinally(
                  [s1 EXCEPT !.error = "Supabase is not configured.",
                             !.connectionStatus = "failed"])
           ELSE [s1 EXCEPT !.connectionStatus = "connected",
                   !.requests = @ \cup {[id |-> st.nextFetch,
                                         data |-> ResumeRows(resume)]}]

\* A call of fetchCandidates stays within the session's queries.
CS_CanFetch == cs.isFetchingRef \/ cs.nextFetch <= MaxFetches

CS_Frame ==
  UNCHANGED <<store, nextId, now, candidateId, cb, asv, inflight, timers,
              cancelled, writes, probe>>

\* The component mounts: useEffect[] arms its 100 ms timer.
CS_Mount ==
  /\ ~cs.mounted
  /\ cs' = [cs EXCEPT !.mounted = TRUE, !.mountTimer = TRUE]
  /\ UNCHANGED resume /\ CS_Frame

\* The 100 ms timer fires.
CS_MountTimerFire ==
  /\ cs.mountTimer /\ CS_CanFetch
  /\ cs' = IF cs.hasInitializedRef
           THEN [cs EXCEPT !.mountTimer = FALSE]
           ELSE CS_fetchCandidates([cs EXCEPT !.mountTimer = FALSE,
                                              !.hasInitializedRef = TRUE])
  /\ UNCHANGED resume /\ CS_Frame

\* The query of request r answers: with rows (ok) or with an error.
CS_FetchDone(r, ok) ==
  /\ r \in cs.requests
  /\ LET s1 == [cs EXCEPT !.requests = @ \ {r}]
     IN  cs' = CS_fetchFinally(
           IF ~ok
           THEN [s1 EXCEPT !.connectionStatus = "failed",
                           !.error = "Database error"]
           ELSE IF r.id \in cs.aborted THEN s1
           ELSE [s1 EXCEPT !.candidates = r.data,
                   !.selectedCandidate =
                      IF IsNull(cs.selectedCandidate) THEN Some(r.data[1])
                      ELSE @])
  /\ UNCHANGED resume /\ CS_Frame

CS_FetchResolve ==
  \E r \in cs.requests, ok \in BOOLEAN : CS_FetchDone(r, ok)

\* handleRetry up to its one-second wait.
CS_handleRetry ==
  /\ cs.mounted /\ "retry" \notin cs.delays
  /\ cs' = [CS_abortCurrent(cs) EXCEPT
              !.hasInitializedRef = FALSE, !.isFetchingRef = FALSE,
              !.loading = TRUE, !.error = "",
              !.connectionStatus = "checking", !.delays = @ \cup {"retry"}]
  /\ UNCHANGED resume /\ CS_Frame

\* handleResetConnection up to its one-second wait.
CS_handleResetConnection ==
  /\ cs.mounted /\ "reset" \notin cs.delays
  /\ cs' = [CS_abortCurrent(cs) EXCEPT
              !.hasInitializedRef = FALSE, !.isFetchingRef = FALSE,
              !.loading = TRUE, !.error = "", !.delays = @ \cup {"reset"}]
  /\ UNCHANGED resume /\ CS_Frame

\* The one-second wait of handleRetry or handleResetConnection is over.
CS_DelayDone ==
  \E d \in cs.delays :
    /\ CS_CanFetch
    /\ cs' = CS_fetchCandidates([cs EXCEPT !.delays = @ \ {d},
                                           !.hasInitializedRef = TRUE])
    /\ UNCHANGED resume /\ CS_Frame

\* A candidate of the list is clicked.
CS_SelectCandidate ==
  \E i \in 1..Len(cs.candidates) :
    /\ CS_PageShown
    /\ cs.selectedCandidate # Some(cs.candidates[i])
    /\ cs' = [cs EXCEPT !.selectedCandidate = Some(cs.candidates[i])]
    /\ UNCHANGED resume /\ CS_Frame

\* The text startEdit puts into editValue: currentValue?.toString() || ''.
CS_toString(field, cand) ==
  IF field = "email" THEN cand.email
  ELSE IF IsNull(cand.vote) THEN <<>>
  ELSE IF Val(cand.vote) = NaN THEN <<"N", "a", "N">>
  ELSE IF Val(cand.vote) = 10 THEN <<"1", "0">>
  ELSE <<<<"0", "1", "2", "3", "4", "5", "6", "7", "8", "9">>
            [Val(cand.vote) + 1]>>

\* startEdit(field, selectedCandidate[field]).  The page calls it for
\* 'email'; 'vote' has no control on the page.
CS_startEdit ==
  \E field \in {"email", "vote"} :
    /\ CS_PageShown /\ ~IsNull(cs.selectedCandidate)
    /\ cs.editingField # field
    /\ cs' = [cs EXCEPT !.editingField = field,
                !.editValue = CS_toString(field, Val(cs.selectedCandidate))]
    /\ UNCHANGED resume /\ CS_Frame

\* The input's onChange.
CS_setEditValue ==
  \E text \in EditInputs :
    /\ CS_PageShown /\ cs.editingField # "" /\ cs.editValue # text
    /\ cs' = [cs EXCEPT !.editValue = text]
    /\ UNCHANGED resume /\ CS_Frame

CS_cancelEdit ==
  /\ CS_PageShown /\ cs.editingField # ""
  /\ cs' = [cs EXCEPT !.editingField = "", !.editValue = <<>>]
  /\ UNCHANGED resume /\ CS_Frame

\* The value saveEdit derives from editValue: the trimmed text, and for
\* 'vote' its parseFloat, or null for an empty text.
CS_updateValue(field, text) ==
  [ text |-> trim(text),
    number |-> IF field = "vote" /\ trim(text) # <<>>
               THEN Some(parseFloat(text)) ELSE Null ]

\* The validation of saveEdit with no check of the upper end of the range.
CS_saveEditRejects_NoUpperBound(field, text) ==
  LET u == CS_updateValue(field, text)
  IN  IF field = "vote"
      THEN /\ ~IsNull(u.number) /\ Val(u.number) # NaN
           /\ Val(u.number) < 0
      ELSE IF field = "email"
      THEN u.text # <<>> /\ ~includesAt(u.text)
      ELSE FALSE

\* The validation of saveEdit: a vote below 0 or above 10 (a comparison
\* with NaN is false), an email that is not empty and has no '@'.
CS_saveEditRejects(field, text) ==
  LET u == CS_updateValue(field, text)
  IN  IF field = "vote"
      THEN /\ ~IsNull(u.number) /\ Val(u.number) # NaN
           /\ Val(u.number) < 0 \/ Val(u.number) > 10
      ELSE IF field = "email"
      THEN u.text # <<>> /\ ~includesAt(u.text)
      ELSE FALSE

\* { ...candidate, [field]: updateValue }
CS_patch(cand, field, u) ==
  IF field = "email" THEN [cand EXCEPT !.email = u.text]
  ELSE [cand EXCEPT !.vote = u.number]

\* The row after .update({ [field]: updateValue }); NaN travels as null.
CS_patchRow(row, field, u) ==
  IF field = "email" THEN [row EXCEPT !.email = u.text]
  ELSE [row EXCEPT !.vote = IF u.number = Some(NaN) THEN Null ELSE u.number]

\* saveEdit up to its await, or to the return of its validation (with the
\* finally block).  Its button is disabled while saving.
CS_saveEdit ==
  /\ CS_PageShown /\ ~cs.saving
  /\ cs.editingField # "" /\ ~IsNull(cs.selectedCandidate)
  /\ IF CS_saveEditRejects(cs.editingField, cs.editValue)
     THEN cs' = [cs EXCEPT !.saving = FALSE,
                   !.alert = IF cs.editingField = "vote"
                             THEN "Vote must be between 0 and 10"
                             ELSE "Please enter a valid email address"]
     ELSE /\ cs.edits < MaxEdits
          /\ cs' = [cs EXCEPT !.saving = TRUE, !.edits = @ + 1,
               !.saves = @ \cup
                 {[ field |-> cs.editingField,
                    value |-> CS_updateValue(cs.editingField, cs.editValue),
                    selected |-> Val(cs.selectedCandidate) ]}]
  /\ UNCHANGED resume /\ CS_Frame

\* The local patch of saveEdit applied before the update has answered.
CS_SaveDone_Optimistic(q, ok) ==
  /\ q \in cs.saves
  /\ LET updatedCandidate == CS_patch(q.selected, q.field, q.value)
         s1 == [cs EXCEPT !.saves = @ \ {q}, !.saving = FALSE,
                  !.selectedCandidate = Some(updatedCandidate),
                  !.candidates =
                     [i \in 1..Len(@) |->
                        IF @[i].candidate_id = q.selected.candidate_id
                        THEN updatedCandidate ELSE @[i]]]
     IN  IF ok
         THEN /\ cs' = [s1 EXCEPT !.editingField = "", !.editValue = <<>>]
              /\ resume' = [resume EXCEPT ![q.selected.candidate_id] =
                              CS_patchRow(@, q.field, q.value)]
         ELSE /\ cs' = [s1 EXCEPT !.alert = "Failed to save changes"]
              /\ UNCHANGED resume
  /\ CS_Frame

\* The update of request q answers: the local patch, or the catch block;
\* then the finally block.
CS_SaveDone(q, ok) ==
  /\ q \in cs.saves
  /\ LET updatedCandidate == CS_patch(q.selected, q.field, q.value)
         s1 == [cs EXCEPT !.saves = @ \ {q}, !.saving = FALSE]
     IN  IF ok
         THEN /\ cs' = [s1 EXCEPT
                   !.selectedCandidate = Some(updatedCandidate),
                   !.candidates =
                      [i \in 1..Len(@) |->
                         IF @[i].candidate_id = q.selected.candidate_id
                         THEN updatedCandidate ELSE @[i]],
                   !.editingField = "", !.editValue = <<>>]
              /\ resume' = [resume EXCEPT ![q.selected.candidate_id] =
                              CS_patchRow(@, q.field, q.value)]
         ELSE /\ cs' = [s1 EXCEPT !.alert = "Failed to save changes"]
              /\ UNCHANGED resume
  /\ CS_Frame

CS_SaveResolve ==
  \E q \in cs.saves, ok \in BOOLEAN : CS_SaveDone(q, ok)

\* The directory is opened with or without a usable Supabase URL.
CS_Init ==
  /\ store = {} /\ nextId = 1 /\ now = NowStart /\ candidateId = Null
  /\ cb = CB_Initial /\ asv = AS_Initial /\ inflight = {} /\ timers = {}
  /\ cancelled = {} /\ writes = 0 /\ probe = Null
  /\ cs \in {[CS_Initial EXCEPT !.configured = b] : b \in BOOLEAN}
  /\ resume = ResumeInitial

\* Neither view is open: only now and probe change.
ViewsClosed ==
  /\ store = {} /\ nextId = 1 /\ candidateId = Null
  /\ cb = CB_Initial /\ asv = AS_Initial /\ inflight = {} /\ timers = {}
  /\ cancelled = {} /\ writes = 0
  /\ cs = CS_Initial /\ resume = ResumeInitial

ViewsUnchanged ==
  UNCHANGED <<store, nextId, candidateId, cb, asv, inflight, timers,
              cancelled, writes, cs, resume>>

\* Hours after the epoch up to which a stored instant is drawn.
MaxHours == 96

\* Hourly instants from 2025-10-31T00:00Z.
StoredInstants == {h * 60 : h \in 0..MaxHours}

\* A row holding an instant and a display zone.
RT_Init ==
  /\ ViewsClosed /\ now = NowStart
  /\ probe \in [ step : {"stored"}, instant : StoredInstants,
                 zone : AllZones, st : {CB_Initial}, resubmitted : {Null} ]

\* checkExistingAppointment shows the stored instant in the zone.
RT_checkExistingAppointment ==
  /\ probe.step = "stored"
  /\ LET c == CandidateList[1]
         data == Some(NewRow(1, c, Some(probe.instant), position_code(c)))
     IN  probe' = [probe EXCEPT !.step = "shown",
                     !.st = CB_checkExisting(probe.st, data, probe.zone)]
  /\ UNCHANGED now /\ ViewsUnchanged

\* handleSubmitAppointment converts the shown date and time back.
RT_handleSubmitAppointment ==
  /\ probe.step = "shown"
  /\ probe' = [probe EXCEPT !.step = "resubmitted",
       !.resubmitted = Some(appointmentDateTime(Val(probe.st.selectedDate),
                              Val(probe.st.selectedTime), probe.zone))]
  /\ UNCHANGED now /\ ViewsUnchanged

\* The last calendar cell (days since the epoch) that is looked at.
MaxDay == 24

\* One calendar cell as each view's grid renders it, on the Monday or on the
\* Thursday.
Cal_Init ==
  /\ ViewsClosed
  /\ now \in {NowStart + k * 3 * 1440 : k \in 0..MaxTicks}
  /\ probe \in [ date : {d * 1440 : d \in 0..MaxDay}, cbDisabled : {Null},
                 asDisabled : {Null}, cbSelected : {FALSE},
                 asSelected : {FALSE} ]

\* CandidateBooking renders the cell's button.
CB_CalendarCell ==
  /\ IsNull(probe.cbDisabled)
  /\ probe' = [probe EXCEPT
       !.cbDisabled = Some(CB_isDateDisabled(probe.date, LocalNow))]
  /\ UNCHANGED now /\ ViewsUnchanged

\* AppointmentSelection renders the cell's button.
AS_CalendarCell ==
  /\ IsNull(probe.asDisabled)
  /\ probe' = [probe EXCEPT
       !.asDisabled = Some(AS_isDateDisabled(probe.date, LocalNow))]
  /\ UNCHANGED now /\ ViewsUnchanged

\* The cell's button is clicked in CandidateBooking: setSelectedDate(day).
CB_CalendarClick ==
  /\ probe.cbDisabled = Some(FALSE) /\ ~probe.cbSelected
  /\ probe' = [probe EXCEPT !.cbSelected = TRUE]
  /\ UNCHANGED now /\ ViewsUnchanged

\* The cell's button is clicked in AppointmentSelection.
AS_CalendarClick ==
  /\ probe.asDisabled = Some(FALSE) /\ ~probe.asSelected
  /\ probe' = [probe EXCEPT !.asSelected = TRUE]
  /\ UNCHANGED now /\ ViewsUnchanged

\* Quarters of an hour the clock advances while QuestionViewer is shown.
MaxQuarters == 6

\* QuestionViewer, mounted for an appointment of the Monday, at 09:30.
QV_Init ==
  /\ ViewsClosed /\ now = NowStart
  /\ probe \in [ appointmentTime :
                   {appointmentDateTime(3 * 1440, slot, DefaultTimezone) :
                      slot \in SlotChoices},
                 fetching : {0}, questions : {<<>>}, loading : {FALSE},
                 showModal : {FALSE}, error : {""} ]

QV_Tick ==
  /\ now < NowStart + MaxQuarters * 15
  /\ now' = now + 15
  /\ UNCHANGED probe /\ ViewsUnchanged

\* The button is clicked (the modal, once shown, covers it).
QV_handleViewQuestions ==
  /\ ~probe.showModal
  /\ isWithinTime(now, probe.appointmentTime)
  /\ probe.fetching < MaxReads
  /\ probe' = [probe EXCEPT !.showModal = TRUE, !.loading = TRUE,
                            !.error = "", !.fetching = @ + 1]
  /\ UNCHANGED now /\ ViewsUnchanged

\* The question fetch resolves.
QV_QuestionsResolve ==
  /\ probe.fetching > 0
  /\ \/ probe' = [probe EXCEPT !.fetching = @ - 1, !.loading = FALSE,
                               !.questions = <<"Q1">>]
     \/ probe' = [probe EXCEPT !.fetching = @ - 1, !.loading = FALSE,
                               !.error = "Failed to load questions."]
  /\ UNCHANGED now /\ ViewsUnchanged

\* The modal's close button.
QV_CloseModal ==
  /\ probe.showModal
  /\ probe' = [probe EXCEPT !.showModal = FALSE]
  /\ UNCHANGED now /\ ViewsUnchanged

\* ---------------------------------------------------------- specifications
\* Both pages are open on the same store, each in the time zone and for the
\* candidate it opened with.
Next == CB_Core \/ AS_Core

Spec == Init /\ [][Next]_vars

\* Only the candidate's booking page is open.
SpecCB == Init /\ [][Tick \/ CB_Next]_vars

\* Only the recruiter's selection page is open, on its first candidate.
SpecAS == Init /\ [][Tick \/ AS_Core \/ AS_SetTimezone]_vars

\* Only the recruiter's selection page is open, moving between candidates.
SpecDirectory == Init /\ [][AS_Core \/ AS_SelectCandidate]_vars

\* Both pages are open and book in any of the zones, without editing or
\* cancelling.
SpecBooking ==
  Init /\ [][\/ CB_Mount \/ CB_FetchCandidateResolve \/ CB_CheckExistingResolve
             \/ CB_SelectDate \/ CB_SelectTime \/ CB_SetTimezone
             \/ CB_SubmitStart \/ CB_SubmitResolve \/ CB_TimerFire
             \/ AS_Mount \/ AS_FetchCandidatesResolve
             \/ AS_CheckExistingResolve \/ AS_SelectDate \/ AS_SelectTime
             \/ AS_SetTimezone \/ AS_SubmitStart \/ AS_SubmitResolve
             \/ AS_TimerFire]_vars

\* --------------------------------------------------------- the month grid
\* The last calendar day (counted from 2025-10-31) a displayed month is
\* taken from: 2026-03-31.
MaxGridDay == 151

\* The first days of November 2025 to May 2026, counted from 2025-10-31.
MonthStarts == <<1, 31, 62, 93, 121, 152, 182>>

\* getMonth() of a local day, as an index into MonthStarts.
MonthOf(day) == Cardinality({i \in 1..Len(MonthStarts) : MonthStarts[i] <= day})

\* date-fns startOfMonth: setDate(1), setHours(0, 0, 0, 0).
startOfMonth(w) == MonthStarts[MonthOf(w \div 1440)] * 1440

\* date-fns endOfMonth: the last day of the month at 23:59:59.999.
endOfMonth(w) == MonthStarts[MonthOf(w \div 1440) + 1] * 1440 - 1

\* startOfWeek with the week starting on Sunday.
startOfWeek_Sunday(w) == addDays(startOfDay(w), -getDay(w))

\* date-fns startOfWeek(date, { weekStartsOn: 1 }).
startOfWeek(w) ==
  addDays(startOfDay(w), -((IF getDay(w) < 1 THEN 7 ELSE 0) + getDay(w) - 1))

\* date-fns endOfWeek(date, { weekStartsOn: 1 }): 23:59:59.999 of the Sunday.
endOfWeek(w) ==
  addDays(startOfDay(w),
          (IF getDay(w) < 1 THEN -7 ELSE 0) + 6 - (getDay(w) - 1)) + 1439

\* while (currentDate <= endDate) { days.push(currentDate);
\*                                  currentDate = addDays(currentDate, 1) }
RECURSIVE DaysUntil(_, _)
DaysUntil(currentDate, endDate) ==
  IF currentDate <= endDate
  THEN <<currentDate>> \o DaysUntil(addDays(currentDate, 1), endDate)
  ELSE <<>>

\* CandidateBooking.getDaysInMonth.
getDaysInMonth(currentMonth) ==
  DaysUntil(startOfWeek(startOfMonth(currentMonth)),
            endOfWeek(endOfMonth(startOfMonth(currentMonth))))

\* AppointmentSelection.getDaysInMonth.
AS_getDaysInMonth(currentMonth) ==
  DaysUntil(startOfWeek(startOfMonth(currentMonth)),
            endOfWeek(endOfMonth(startOfMonth(currentMonth))))

\* A view shows a month: currentMonth is a moment of some day, at midnight
\* or at the time the page was opened.
Grid_Init ==
  /\ ViewsClosed /\ now = NowStart
  /\ probe \in [ view : {"CB", "AS"},
                 currentMonth : {d * 1440 + t : d \in 1..MaxGridDay,
                                 t \in {0, LocalNow % 1440}},
                 days : {Null} ]

\* The calendar is rendered: getDaysInMonth().map(...).
Grid_Render ==
  /\ IsNull(probe.days)
  /\ probe' = [probe EXCEPT !.days =
       Some(IF probe.view = "CB" THEN getDaysInMonth(probe.currentMonth)
            ELSE AS_getDaysInMonth(probe.currentMonth))]
  /\ UNCHANGED now /\ ViewsUnchanged

\* date-fns addMonths(date, n) for n = 1 or -1: the same day of the month and
\* time of day in the neighbouring month, or that month's last day when it
\* is shorter.
addMonths(w, n) ==
  LET day == w \div 1440
      m == MonthOf(day) + n
      dayOfMonth == day - MonthStarts[MonthOf(day)]
      daysInMonth == MonthStarts[m + 1] - MonthStarts[m]
  IN  (MonthStarts[m] + (IF dayOfMonth < daysInMonth THEN dayOfMonth
                         ELSE daysInMonth - 1)) * 1440 + (w % 1440)

\* nextMonth: setCurrentMonth(addDays(currentMonth, 30)) in CandidateBooking,
\* setCurrentMonth(addMonths(currentMonth, 1)) in AppointmentSelection.
Grid_nextMonth ==
  LET next == IF probe.view = "CB" THEN addDays(probe.currentMonth, 30)
              ELSE addMonths(probe.currentMonth, 1)
  IN  /\ next \div 1440 <= MaxGridDay
      /\ probe' = [probe EXCEPT !.currentMonth = next, !.days = Null]
      /\ UNCHANGED now /\ ViewsUnchanged

\* previousMonth: addDays(currentMonth, -30) in CandidateBooking,
\* addMonths(currentMonth, -1) in AppointmentSelection.
Grid_prevMonth ==
  /\ IF probe.view = "CB"
     THEN addDays(probe.currentMonth, -30) \div 1440 >= 1
     ELSE MonthOf(probe.currentMonth \div 1440) >= 2
  /\ probe' = [probe EXCEPT !.currentMonth =
                 IF probe.view = "CB" THEN addDays(probe.currentMonth, -30)
                 ELSE addMonths(probe.currentMonth, -1),
               !.days = Null]
  /\ UNCHANGED now /\ ViewsUnchanged

\* The month grid of both views, for the months from November 2025 on.
SpecMonthGrid ==
  Grid_Init /\ [][Grid_Render \/ Grid_nextMonth \/ Grid_prevMonth]_vars

\* Both pages are open and handleSubmitAppointment is also called directly,
\* whatever is selected.
SpecValidation ==
  Init /\ [][\/ CB_Mount \/ CB_FetchCandidateResolve \/ CB_CheckExistingResolve
             \/ CB_SelectDate \/ CB_SelectTime \/ CB_Edit
             \/ CB_SubmitInvalid \/ CB_SubmitStart \/ CB_SubmitResolve
             \/ AS_Mount \/ AS_FetchCandidatesResolve
             \/ AS_CheckExistingResolve \/ AS_SelectDate \/ AS_SelectTime
             \/ AS_Edit \/ AS_SubmitInvalid \/ AS_SubmitStart
             \/ AS_SubmitResolve]_vars

\* The candidate directory fetching its list: the mount, handleRetry and
\* handleResetConnection called at any time, candidates selected.
SpecFetch ==
  CS_Init /\ [][\/ CS_Mount \/ CS_MountTimerFire \/ CS_FetchResolve
                \/ CS_handleRetry \/ CS_handleResetConnection
                \/ CS_DelayDone \/ CS_SelectCandidate]_vars

\* The candidate directory with its list fetched once and fields edited.
SpecEdit ==
  CS_Init /\ [][\/ CS_Mount \/ CS_MountTimerFire \/ CS_FetchResolve
                \/ CS_SelectCandidate \/ CS_startEdit \/ CS_setEditValue
                \/ CS_cancelEdit \/ CS_saveEdit \/ CS_SaveResolve]_vars

\* The conversion of a stored instant to a display zone and back.
SpecRoundTrip ==
  RT_Init /\ [][RT_checkExistingAppointment \/ RT_handleSubmitAppointment]_vars

\* The calendar cells of both views.
SpecCalendar ==
  Cal_Init /\ [][CB_CalendarCell \/ AS_CalendarCell \/ CB_CalendarClick
                 \/ AS_CalendarClick]_vars

\* QuestionViewer while the clock runs through the interview window.
SpecQuestions ==
  QV_Init /\ [][QV_Tick \/ QV_handleViewQuestions \/ QV_QuestionsResolve
                \/ QV_CloseModal]_vars

\* ================================================================== claims
\* The re-read that follows a write of handleSubmitAppointment that threw
\* nothing.
SubmitReRead(op) == Op(op.view, "read", op.cand, op.tz, Null, 0, "submit")

\* The write an in-flight submission makes when it reaches the store, and
\* whether the store refuses it.
SubmitWrite(s, op) ==
  IF op.view = "CB" THEN CB_SubmitWrite(s, op) ELSE AS_SubmitWrite(s, op)

SubmitRefused(s, op) == op.view = "AS" /\ AS_SubmitRefused(s, op)

C2_SubmitLeavesOneRow ==
  [][\A op \in inflight :
       (op.kind = "submit" /\ op \notin inflight'
          /\ SubmitReRead(op) \in inflight')
       => \E r \in store' :
            /\ {x \in store' : x.candidate_id = op.cand} = {r}
            /\ r.appointment_time = Some(op.time)]_vars

\* C3: after a cancellation of a candidate's appointment no instant is
\* readable for the candidate, and a submission for the candidate, from
\* either view, meets no uniqueness conflict at the store and leaves the
\* candidate scheduled.
C3_SubmitAfterCancelSucceeds ==
  /\ \A c \in cancelled : ~Scheduled(store, c)
  /\ \A op \in inflight :
       (op.kind = "submit" /\ op.cand \in cancelled)
       => /\ ~SubmitRefused(store, op)
          /\ Scheduled(SubmitWrite(store, op), op.cand)

\* The instant of the candidate's row in table s.
InstantOf(s, c) ==
  Val((CHOOSE r \in s : r.candidate_id = c /\ ~IsNull(r.appointment_time))
        .appointment_time)

\* C4: a successful read of CandidateBooking.checkExistingAppointment
\* classifies the candidate's row: no row, nothing held and nothing
\* selected, edit mode off; a row without instant, the row held, nothing
\* selected, edit mode on; a row with an instant, the row held, edit mode
\* off, and the instant's date and time in the zone the call ran with
\* selected.
C4_CheckExistingClassifies ==
  [][\A op \in inflight :
       CB_CheckExistingDone(op, TRUE)
       => LET data == SelectByCandidate(op.cand)
          IN  IF data = Null
              THEN /\ cb'.existingAppointment = Null
                   /\ cb'.selectedDate = Null /\ cb'.selectedTime = Null
                   /\ ~cb'.isEditMode
              ELSE IF Val(data).appointment_time = Null
              THEN /\ cb'.existingAppointment = data
                   /\ cb'.selectedDate = Null /\ cb'.selectedTime = Null
                   /\ cb'.isEditMode
              ELSE LET t == Val(Val(data).appointment_time)
                       w == t + calcOffset(t, op.tz)
                   IN  /\ cb'.existingAppointment = data
                       /\ ~cb'.isEditMode
                       /\ cb'.selectedDate = Some(w)
                       /\ cb'.selectedTime = Some(w % 1440)]_vars

\* C4 witness: CandidateBooking has read a row without instant and holds it
\* with edit mode on and nothing selected.
C4_PendingRowRead ==
  /\ cb.mounted /\ ~IsNull(cb.existingAppointment)
  /\ IsNull(Val(cb.existingAppointment).appointment_time)
  /\ cb.isEditMode /\ IsNull(cb.selectedDate) /\ IsNull(cb.selectedTime)
  /\ \A op \in inflight : op.view # "CB"

\* The instant a submission carries shows, on the wall clock of the selected
\* zone, the selected day at the selected time; 10:00 in Asia/Dubai is 06:00
\* UTC of that day.
WallClockStored(op, st) ==
  LET day == (Val(st.selectedDate) \div 1440) * 1440
  IN  /\ op.kind = "submit" /\ op.tz = st.selectedTimezone
      /\ op.time + calcOffset(op.time, op.tz) = day + Val(st.selectedTime)
      /\ (op.tz = "Asia/Dubai" /\ Val(st.selectedTime) = 10 * 60)
           => op.time = day + 6 * 60

\* C5: a submission stores the selected date and time, read on the wall
\* clock of the selected zone, as a UTC instant (10:00 in Asia/Dubai on day
\* D as D 06:00 UTC), and when it succeeds for a candidate the view held no
\* row of, the candidate has exactly one row, holding that instant.
C5_StoresWallClockAsUTC ==
  [][/\ CB_SubmitStart
          => \E op \in inflight' : inflight' = inflight \cup {op}
                                   /\ WallClockStored(op, cb)
     /\ AS_SubmitStart
          => \E op \in inflight' : inflight' = inflight \cup {op}
                                   /\ WallClockStored(op, asv)
     /\ \A op \in inflight :
          (op.kind = "submit" /\ IsNull(op.id) /\ op \notin inflight'
             /\ SubmitReRead(op) \in inflight')
          => /\ Cardinality({r \in store' : r.candidate_id = op.cand}) = 1
             /\ InstantOf(store', op.cand) = op.time]_vars

\* C5 witness: AppointmentSelection, holding no row of the candidate, has
\* inserted Monday 10:00 Asia/Dubai and the row holds Monday 06:00 UTC.
C5_TenDubaiStored ==
  /\ IsNull(asv.existingAppointment) /\ asv.success
  /\ asv.selectedTimezone = "Asia/Dubai"
  /\ asv.selectedTime = Some(10 * 60)
  /\ asv.selectedDate = Some(3 * 1440)
  /\ \E op \in inflight :
       /\ op.view = "AS" /\ op.kind = "read" /\ op.cont = "submit"
       /\ Scheduled(store, op.cand)
       /\ InstantOf(store, op.cand) = 3 * 1440 + 6 * 60

\* C6: a stored instant shown in a supported zone and submitted again with
\* the same zone is the instant that was stored.
C6_RoundTripExact ==
  probe.step = "resubmitted" => probe.resubmitted = Some(probe.instant)

C8_QuestionsOnlyInWindow ==
  [][QV_handleViewQuestions
       => /\ probe.appointmentTime <= now
          /\ now <= probe.appointmentTime + 30]_vars

\* C9: in both views a calendar cell later than today plus fourteen days is
\* disabled and cannot be selected.
C9_BeyondFourteenDaysDisabled ==
  probe.date > (LocalNow \div 1440) * 1440 + 14 * 1440
    => /\ probe.cbDisabled \in {Null, Some(TRUE)}
       /\ probe.asDisabled \in {Null, Some(TRUE)}
       /\ ~probe.cbSelected /\ ~probe.asSelected

\* C10: in both views a calendar cell strictly before the start of today is
\* disabled.
C10_PastDatesDisabled ==
  probe.date < (LocalNow \div 1440) * 1440
    => /\ probe.cbDisabled \in {Null, Some(TRUE)}
       /\ probe.asDisabled \in {Null, Some(TRUE)}

\* C10 witness: both views have rendered the cell of a working day before
\* today and both have it disabled.
C10_PastWorkingDayRendered ==
  /\ probe.date < (LocalNow \div 1440) * 1440
  /\ getDay(probe.date) \notin {0, 6}
  /\ probe.cbDisabled = Some(TRUE) /\ probe.asDisabled = Some(TRUE)

\* C11: in both views a calendar cell that falls on a Saturday or a Sunday
\* is disabled, inside the look-ahead window as well as outside it.
C11_WeekendsDisabled ==
  (((probe.date \div 1440) + 5) % 7) \in {0, 6}
    => /\ probe.cbDisabled \in {Null, Some(TRUE)}
       /\ probe.asDisabled \in {Null, Some(TRUE)}
       /\ ~probe.cbSelected /\ ~probe.asSelected

\* C11 witness: both views have rendered the cell of a Saturday or Sunday
\* that is neither past nor beyond today plus fourteen days, and both have
\* it disabled.
C11_WeekendInsideWindowRendered ==
  /\ (((probe.date \div 1440) + 5) % 7) \in {0, 6}
  /\ probe.date >= (LocalNow \div 1440) * 1440
  /\ probe.date <= (LocalNow \div 1440) * 1440 + 14 * 1440
  /\ probe.cbDisabled = Some(TRUE) /\ probe.asDisabled = Some(TRUE)

\* C12: without a candidate_id in the address CandidateBooking never has a
\* remote call in flight and never writes, and once mounted it is past the
\* loading screen with the "no candidate id" error set, on the invalid-link
\* screen (the booking page is not shown).
C12_NoCandidateIdNoRemoteCall ==
  IsNull(candidateId)
    => /\ \A op \in inflight : op.view # "CB"
       /\ writes = 0 /\ store \in InitialStores
       /\ cb.mounted
            => /\ ~cb.loading
               /\ cb.error = "No candidate ID provided in the URL"
               /\ IsNull(cb.candidate) /\ ~CB_PageShown

\* C12 witness: the view has mounted without a candidate_id and, later, the
\* clock has moved on.
C12_InvalidLinkShown ==
  /\ IsNull(candidateId) /\ cb.mounted /\ ~cb.loading /\ cb.error # ""
  /\ now > NowStart

\* C13: handleSubmitAppointment called without a candidate, a date or a time
\* sets the error "Please select a date and time" and nothing else: no call
\* is started, the table and the submitting flag are as before; and no step
\* starts a submission from a state in which something is missing.
C13_InvalidSubmitRejected ==
  [][/\ CB_SubmitInvalid
          => /\ cb'.error = "Please select a date and time"
             /\ cb'.submitting = cb.submitting
             /\ inflight' = inflight /\ store' = store /\ writes' = writes
     /\ AS_SubmitInvalid
          => /\ asv'.error = "Please select a date and time"
             /\ asv'.submitting = asv.submitting
             /\ inflight' = inflight /\ store' = store /\ writes' = writes
     /\ \A op \in inflight' \ inflight :
          op.kind = "submit"
          => IF op.view = "CB"
             THEN cb.candidate # Null /\ cb.selectedDate # Null
                  /\ cb.selectedTime # Null
             ELSE asv.selectedCandidate # Null /\ asv.selectedDate # Null
                  /\ asv.selectedTime # Null]_vars

\* C13 witness: CandidateBooking has a date but no time selected and shows
\* the validation error, with nothing in flight; AppointmentSelection shows
\* it too.
C13_ValidationErrorShown ==
  /\ cb.error = "Please select a date and time"
  /\ ~IsNull(cb.selectedDate) /\ IsNull(cb.selectedTime)
  /\ ~cb.submitting
  /\ asv.error = "Please select a date and time" /\ ~asv.submitting
  /\ inflight = {} /\ writes = 0

\* The reconciler state of a view: what it believes is booked and what is
\* being picked.
Reconciler(st) ==
  <<st.existingAppointment, st.selectedDate, st.selectedTime, st.isEditMode>>

\* C14: when the write of handleSubmitAppointment or handleDeleteAppointment
\* fails, the view shows an error message, its existingAppointment, selected
\* date, selected time and edit mode are what they were, submitting is false
\* again, success is not raised, and the table is as it was (of
\* AppointmentSelection this is said while it is still rendered).
C14_WriteFailureKeepsState ==
  [][\A op \in inflight :
       /\ CB_SubmitFailed(op) \/ CB_DeleteFailed(op)
            => /\ cb'.error # "" /\ ~cb'.submitting
               /\ Reconciler(cb') = Reconciler(cb)
               /\ cb'.success = cb.success /\ store' = store
       /\ ~asv.crashed /\ (AS_SubmitFailed(op) \/ AS_DeleteFailed(op))
            => /\ asv'.error # "" /\ ~asv'.submitting
               /\ Reconciler(asv') = Reconciler(asv)
               /\ asv'.success = asv.success /\ store' = store]_vars

\* C14 witness: CandidateBooking's cancellation has failed with the booking
\* and the confirmation still on screen, and AppointmentSelection's
\* rescheduling has failed in edit mode.
C14_BothWritesFailed ==
  /\ cb.error = "Failed to delete appointment. Please try again."
  /\ ~IsNull(cb.existingAppointment) /\ cb.showDeleteConfirm
  /\ ~cb.submitting /\ ~cb.success
  /\ asv.error = "Failed to save appointment. Please try again."
  /\ asv.isEditMode /\ ~IsNull(asv.selectedTime)
  /\ ~asv.submitting /\ ~asv.success /\ ~asv.crashed

\* C15: when the read of checkExistingAppointment fails, the view shows an
\* error message and its existingAppointment, selected date, selected time
\* and edit mode are what they were.
C15_ReadFailureSurfaced ==
  [][\A op \in inflight :
       /\ CB_CheckExistingDone(op, FALSE)
            => cb'.error # "" /\ Reconciler(cb') = Reconciler(cb)
       /\ ~asv.crashed /\ AS_CheckExistingDone(op, FALSE)
            => asv'.error # "" /\ Reconciler(asv') = Reconciler(asv)]_vars

\* C16: once a successful submission (with its re-read) or a successful
\* cancellation has finished, the view's existingAppointment is the row the
\* table holds for the candidate, and null exactly when there is none.
C16_DisplayedRowIsStoredRow ==
  [][\A op \in inflight :
       /\ \/ op.kind = "delete" /\ CB_DeleteResolve /\ op \notin inflight'
             /\ ~CB_DeleteFailed(op)
          \/ op.cont = "submit" /\ CB_CheckExistingDone(op, TRUE)
          => cb'.existingAppointment = SelectByCandidate(op.cand)'
       /\ ~asv.crashed
          /\ \/ op.kind = "delete" /\ AS_DeleteResolve /\ op \notin inflight'
                /\ ~AS_DeleteFailed(op)
             \/ op.cont = "submit" /\ AS_CheckExistingDone(op, TRUE)
          => asv'.existingAppointment = SelectByCandidate(op.cand)']_vars

\* C17: whenever the table holds a row for the candidate, with or without an
\* instant, a submission that starts is an update of that row by its id,
\* never an insert or an upsert; this also right after a cancellation.
C17_SubmitUpdatesExistingRow ==
  [][\A op \in inflight' \ inflight :
       (op.kind = "submit" /\ RowsOf(op.cand) # {})
       => /\ ~IsNull(op.id)
          /\ \E r \in RowsOf(op.cand) : r.id = Val(op.id)]_vars

\* C18: in both views, with today selected, a click on the slot grid never
\* sets selectedTime to a slot whose time of day is already past.
C18_PastSlotsNotSelectable ==
  [][/\ CB_SelectTime
          => ~CB_isPast(Val(cb.selectedDate), Val(cb'.selectedTime), LocalNow)
     /\ AS_SelectTime
          => ~CB_isPast(Val(asv.selectedDate), Val(asv'.selectedTime),
                        LocalNow)]_vars

\* C19: the list getDaysInMonth returns for a displayed month is made of
\* consecutive days, starts on a Monday, ends on a Sunday, has a multiple of
\* seven entries, contains every day of the month, has a day of the month in
\* its first and in its last week, and is the same for every moment of the
\* month.
C19_MonthGridWholeWeeks ==
  ~IsNull(probe.days)
    => LET days  == Val(probe.days)
           month == MonthOf(probe.currentMonth \div 1440)
       IN  /\ Len(days) > 0 /\ Len(days) % 7 = 0
           /\ ((days[1] \div 1440) + 5) % 7 = 1
           /\ ((days[Len(days)] \div 1440) + 5) % 7 = 0
           /\ \A i \in 1..(Len(days) - 1) : days[i + 1] = days[i] + 1440
           /\ \A d \in MonthStarts[month]..(MonthStarts[month + 1] - 1) :
                \E i \in 1..Len(days) : days[i] = d * 1440
           /\ MonthOf(days[7] \div 1440) = month
           /\ MonthOf(days[Len(days) - 6] \div 1440) = month
           /\ \A d \in MonthStarts[month]..(MonthStarts[month + 1] - 1) :
                \A t \in {0, 1439} :
                  /\ getDaysInMonth(d * 1440 + t) = days
                  /\ AS_getDaysInMonth(d * 1440 + t) = days

\* C19 witness: AppointmentSelection shows March 2026, reached from a moment
\* in the middle of a day; the month starts on a Sunday and takes six weeks.
C19_SixWeekMonthRendered ==
  /\ probe.view = "AS" /\ ~IsNull(probe.days)
  /\ Len(Val(probe.days)) = 42
  /\ probe.currentMonth \div 1440 >= 121
  /\ probe.currentMonth % 1440 # 0

\* C20: when AppointmentSelection has read a row without an instant, the
\* candidate is pending: the view is still rendered, shows no error and no
\* selected instant, and its slot grid is open for a selection.
C20_PendingRowOffersSlots ==
  (/\ ~IsNull(asv.existingAppointment)
   /\ IsNull(Val(asv.existingAppointment).appointment_time)
   /\ ReadsInFlight("AS") = {} /\ ~asv.submitting)
    => /\ ~asv.crashed /\ asv.error = ""
       /\ ~AS_Locked

\* C21: across the mount, handleRetry and handleResetConnection, at most one
\* candidate-list query issued by fetchCandidates is in flight at any time.
C21_OneFetchInFlight == Cardinality(cs.requests) <= 1

\* C22: the rows of a candidate-list query are applied to the candidates
\* state only if no newer fetch has started since the query was issued.
C22_SupersededFetchNotApplied ==
  [][\A r \in cs.requests :
       (CS_FetchDone(r, TRUE) /\ cs'.candidates = r.data
          /\ r.id \notin cs.aborted)
       => r.id = cs.nextFetch - 1]_vars

\* The value a candidate record holds in a field, as an update value.
FieldOf(cand, field) ==
  IF field = "email" THEN [text |-> cand.email, number |-> Null]
  ELSE [text |-> <<>>, number |-> cand.vote]

\* The part of an update value that is written to the field.
Written(field, u) ==
  IF field = "email" THEN [text |-> u.text, number |-> Null]
  ELSE [text |-> <<>>, number |-> u.number]

\* C23: saveEdit leaves the candidates list and the selected candidate alone
\* until its update has answered; when the update succeeded, the selected
\* candidate and its entry in the list carry the written value and every
\* other entry is unchanged; when it failed, the list, the selected
\* candidate, the field being edited and its text are as they were.
C23_PatchOnlyAfterSuccess ==
  [][/\ CS_saveEdit
          => /\ cs'.candidates = cs.candidates
             /\ cs'.selectedCandidate = cs.selectedCandidate
     /\ \A q \in cs.saves :
          /\ CS_SaveDone(q, TRUE)
               => /\ Val(cs'.selectedCandidate).candidate_id
                       = q.selected.candidate_id
                  /\ FieldOf(Val(cs'.selectedCandidate), q.field)
                       = Written(q.field, q.value)
                  /\ \A i \in 1..Len(cs.candidates) :
                       IF cs.candidates[i].candidate_id
                            = q.selected.candidate_id
                       THEN cs'.candidates[i] = Val(cs'.selectedCandidate)
                       ELSE cs'.candidates[i] = cs.candidates[i]
                  /\ Len(cs'.candidates) = Len(cs.candidates)
          /\ CS_SaveDone(q, FALSE)
               => /\ cs'.candidates = cs.candidates
                  /\ cs'.selectedCandidate = cs.selectedCandidate
                  /\ cs'.editingField = cs.editingField
                  /\ cs'.editValue = cs.editValue]_vars

\* C23 witness: the second candidate's email was saved and is patched into
\* the list, and a later update has failed with the field still being
\* edited.
C23_SavedThenFailed ==
  /\ Len(cs.candidates) = NumCandidates
  /\ cs.candidates[2].email = <<"a", "@", "b">>
  /\ resume[CandidateList[2]].email = <<"a", "@", "b">>
  /\ cs.candidates[1] = ResumeRows(ResumeInitial)[1]
  /\ cs.alert = "Failed to save changes"
  /\ cs.editingField = "vote" /\ cs.editValue = <<"5">>
  /\ cs.saves = {} /\ ~cs.saving /\ cs.edits = 2

\* C24: saveEdit called with a vote below 0 or above 10, or with an email
\* text that has no '@', sends no update and leaves the candidates list, the
\* selected candidate and the table as they were, with saving false.
C24_InvalidEditRejected ==
  [][(/\ CS_saveEdit
      /\ \/ /\ cs.editingField = "vote"
            /\ trim(cs.editValue) # <<>>
            /\ parseFloat(cs.editValue) # NaN
            /\ parseFloat(cs.editValue) < 0 \/ parseFloat(cs.editValue) > 10
         \/ /\ cs.editingField = "email"
            /\ ~includesAt(cs.editValue))
       => /\ cs'.saves = cs.saves /\ resume' = resume
          /\ cs'.candidates = cs.candidates
          /\ cs'.selectedCandidate = cs.selectedCandidate
          /\ ~cs'.saving]_vars

\* C24 as amended: saveEdit called with a vote below 0 or above 10, or with
\* an email text that is not blank and has no '@', sends no update and
\* leaves the candidates list, the selected candidate and the table as they
\* were, with saving false.
C24_NonBlankInvalidEditRejected ==
  [][(/\ CS_saveEdit
      /\ \/ /\ cs.editingField = "vote"
            /\ trim(cs.editValue) # <<>>
            /\ parseFloat(cs.editValue) # NaN
            /\ parseFloat(cs.editValue) < 0 \/ parseFloat(cs.editValue) > 10
         \/ /\ cs.editingField = "email"
            /\ trim(cs.editValue) # <<>>
            /\ ~includesAt(cs.editValue))
       => /\ cs'.saves = cs.saves /\ resume' = resume
          /\ cs'.candidates = cs.candidates
          /\ cs'.selectedCandidate = cs.selectedCandidate
          /\ ~cs'.saving]_vars

\* C24 witness: the email text " ab" has just been refused, nothing was sent.
C24_EmailRefused ==
  /\ cs.alert = "Please enter a valid email address"
  /\ cs.editingField = "email" /\ cs.editValue = <<" ", "a", "b">>
  /\ cs.saves = {} /\ ~cs.saving /\ cs.edits = 0
  /\ resume = ResumeInitial

\* C25: a submission started while candidate C is the selected candidate
\* changes no row of another candidate, neither its instant nor its
\* position code.
C25_SubmitWritesOwnRowOnly ==
  [][\A op \in inflight :
       (op.kind = "submit" /\ op \notin inflight')
       => \A r \in store : r.candidate_id # op.cand => r \in store']_vars

\* A view's state st shows the row of candidate c, and the selected date
\* and time are that row's instant in zone tz.
ShowsRowOf(st, c, tz) ==
  LET row == Val(st.existingAppointment)
      w   == toZonedTime(Val(row.appointment_time), tz)
  IN  /\ row.candidate_id = c
      /\ st.selectedDate = Some(w)
      /\ st.selectedTime = Some(formatTime(w))

\* C26: when the last read of checkExistingAppointment in flight answers
\* (successfully) and the view then shows a scheduled appointment, it shows
\* the row of the currently selected candidate, with the selected date and
\* time being the row's instant in the currently selected zone.
C26_ReadsSettleOnSelection ==
  [][\A op \in inflight :
       /\ (/\ CB_CheckExistingDone(op, TRUE)
           /\ \A o \in inflight' : ~(o.view = "CB" /\ o.kind = "read")
           /\ ~IsNull(cb'.existingAppointment) /\ ~cb'.isEditMode
           /\ ~IsNull(Val(cb'.existingAppointment).appointment_time))
            => ShowsRowOf(cb', Val(cb'.candidate), cb'.selectedTimezone)
       /\ (/\ AS_CheckExistingDone(op, TRUE) /\ ~asv'.crashed
           /\ \A o \in inflight' : ~(o.view = "AS" /\ o.kind = "read")
           /\ ~IsNull(asv'.existingAppointment) /\ ~asv'.isEditMode
           /\ ~IsNull(Val(asv'.existingAppointment).appointment_time))
            => ShowsRowOf(asv', Val(asv'.selectedCandidate),
                          asv'.selectedTimezone)]_vars

\* C27: every instant CandidateBooking.handleSubmitAppointment writes lies on
\* a date that isDateDisabled accepts when the submit button is pressed, also
\* when the date is the one checkExistingAppointment filled in from the
\* stored instant.
C27_SubmittedDateSelectable ==
  [][CB_SubmitStart
       => ~CB_isDateDisabled(Val(cb.selectedDate), LocalNow)]_vars

\* The submit and delete writes CandidateBooking has outstanding.
CB_WritesInFlight ==
  {op \in inflight : op.view = "CB" /\ op.kind \in {"submit", "delete"}}

\* C28: CandidateBooking has at most one submit or delete write outstanding,
\* and submitting is true (its submit and delete-confirm buttons are
\* disabled) for as long as that write is outstanding.
C28_OneWriteInFlight ==
  /\ Cardinality(CB_WritesInFlight) <= 1
  /\ CB_WritesInFlight # {} => cb.submitting

\* A submit is outstanding while the page already shows another time than
\* the one being written: a second press would be a second, different write.
C28_SecondWriteHeldBack ==
  \E op \in CB_WritesInFlight :
    /\ op.kind = "submit" /\ cb.submitting /\ CB_SummaryShown
    /\ appointmentDateTime(Val(cb.selectedDate), Val(cb.selectedTime),
                           cb.selectedTimezone) # op.time

\* getMonth() of the month a view displays, as an index into MonthStarts.
DisplayedMonth(p) == MonthOf(p.currentMonth \div 1440)

\* C29: in CandidateBooking nextMonth moves the displayed month forward by
\* exactly one month and previousMonth moves it back by exactly one month.
C29_MonthStepIsOneMonth ==
  [][/\ (probe.view = "CB" /\ Grid_nextMonth)
          => DisplayedMonth(probe') = DisplayedMonth(probe) + 1
     /\ (probe.view = "CB" /\ Grid_prevMonth)
          => DisplayedMonth(probe') = DisplayedMonth(probe) - 1]_vars

\* The step of CB_SubmitResolve in which the write succeeded: setSuccess(true)
\* has run and the re-read is on its way.
CB_SubmitSucceeded ==
  /\ CB_SubmitResolve
  /\ \E op \in inflight :
       /\ op.view = "CB" /\ op.kind = "submit" /\ op \notin inflight'
       /\ Op("CB", "read", op.cand, op.tz, Null, 0, "submit") \in inflight'
  /\ cb'.success

\* C30: when a completed submission raises CandidateBooking's success banner,
\* deleteSuccess is false: the banner never reads "Appointment Removed".
C30_SubmitBannerNotRemoved ==
  [][CB_SubmitSucceeded => ~cb'.deleteSuccess]_vars

=============================================================================
